---- MODULE Spec2Model ----
(***************************************************************************)
(* Model of the mmclassification docker add-ons:                           *)
(*   0.23.1_cuda11.1/external.py      ExternalDataset (sample catalog)     *)
(*   0.25.0_cuda11.1/predict_common.py  inference_model (top-K result)     *)
(*                                                                         *)
(* Python strings are sequences of code points, so that sort(), strip(),   *)
(* split(), rsplit(), lower() and endswith() are computed, not assumed.    *)
(***************************************************************************)
EXTENDS Integers, Sequences, FiniteSets, TLC

VARIABLES
    env,            \* the MMCLS_CLASSES environment source (os.getenv / os.path.exists / file)
    fs,             \* file-system snapshot: immediate subfolder -> files below it
    ann_file,       \* the ann_file argument, with the lines list_from_file yields
    pc,             \* "new" | "labelled" | "loaded" | "failed" (construction raised)
    CLASSES,        \* self.CLASSES
    listed,         \* order in which the file client listed the subfolders
    found,          \* what find_folders returned: [classes, folder_to_idx]
    samples,        \* the local `samples` of load_annotations
    empty_classes,  \* the empty_folders set returned by get_samples
    warned,         \* folders named by the UserWarning (empty when none issued)
    folder_to_idx,  \* self.folder_to_idx
    data_infos,     \* the list load_annotations returned
    returned,       \* TRUE iff the last load_annotations returned a list
    raised,         \* exception of the last operation, "none" if it returned
    pipeline0,      \* cfg.data.test.pipeline as configured, before any call
    pipeline,       \* cfg.data.test.pipeline (shared, mutated by inference_model)
    model_classes,  \* model.CLASSES
    model_scores,   \* what model(return_loss=False, **data) returns for the image
    last,           \* arguments of the most recent inference_model call
    result,         \* the dict inference_model returned, in insertion order
    infer_raised    \* exception of the most recent inference_model call

dsVars == <<env, fs, ann_file, pc, CLASSES, listed, found, samples, empty_classes,
            warned, folder_to_idx, data_infos, returned, raised>>
inferVars == <<pipeline0, pipeline, model_classes, model_scores, last, result,
               infer_raised>>
vars == <<dsVars, inferVars>>

(***************************************************************************)
(* Bounds of the model.                                                    *)
(***************************************************************************)
MaxFolders == 2
MaxEnvLen == 5
MaxLines == 3
MaxLineLen == 5
MaxAnnLines == 2
MaxClasses == 3
MaxStages == 3

(***************************************************************************)
(* Python str primitives.                                                  *)
(***************************************************************************)
Ch == [tab |-> 9, sp |-> 32, comma |-> 44, dot |-> 46, slash |-> 47,
       d0 |-> 48, d1 |-> 49, B |-> 66, G |-> 71, N |-> 78, P |-> 80,
       a |-> 97, b |-> 98, c |-> 99, g |-> 103, n |-> 110, p |-> 112,
       t |-> 116, x |-> 120]

Whitespace == {9, 10, 11, 12, 13, 28, 29, 30, 31, 32}
Digits == 48..57

Min2(i, j) == IF i <= j THEN i ELSE j

\* s < t for Python str: code-point lexicographic, a proper prefix is smaller.
LexLess(s, t) ==
    \E k \in 1..(Min2(Len(s), Len(t)) + 1) :
        /\ \A j \in 1..(k - 1) : s[j] = t[j]
        /\ \/ k = Len(s) + 1 /\ k <= Len(t)
           \/ k <= Len(s) /\ k <= Len(t) /\ s[k] < t[k]

LexLeq(s, t) == s = t \/ LexLess(s, t)

RECURSIVE Insert(_, _)
Insert(sorted, e) ==
    IF sorted = <<>> THEN <<e>>
    ELSE IF LexLess(e, sorted[Len(sorted)])
         THEN Append(Insert(SubSeq(sorted, 1, Len(sorted) - 1), e), sorted[Len(sorted)])
         ELSE Append(sorted, e)

\* list.sort() / sorted() on a list of str.
RECURSIVE Sorted(_)
Sorted(seq) ==
    IF seq = <<>> THEN <<>>
    ELSE Insert(Sorted(SubSeq(seq, 1, Len(seq) - 1)), seq[Len(seq)])

\* the orders in which a collaborator may list a set of distinct names
Listings(S) ==
    {q \in [1..Cardinality(S) -> S] : \A i, j \in 1..Cardinality(S) : q[i] = q[j] => i = j}

Range(seq) == {seq[i] : i \in 1..Len(seq)}

\* str.strip()
RECURSIVE LStrip(_)
LStrip(s) ==
    IF s # <<>> /\ s[1] \in Whitespace THEN LStrip(Tail(s)) ELSE s

RECURSIVE RStrip(_)
RStrip(s) ==
    IF s # <<>> /\ s[Len(s)] \in Whitespace THEN RStrip(SubSeq(s, 1, Len(s) - 1)) ELSE s

Strip(s) == RStrip(LStrip(s))

\* str.split(sep) for a one-character sep
RECURSIVE Split(_, _)
Split(s, sep) ==
    IF \A i \in 1..Len(s) : s[i] # sep THEN <<s>>
    ELSE LET k == CHOOSE i \in 1..Len(s) : s[i] = sep /\ \A j \in 1..(i - 1) : s[j] # sep
         IN  <<SubSeq(s, 1, k - 1)>> \o Split(SubSeq(s, k + 1, Len(s)), sep)

\* like Split on the FIRST separator only: str.split(sep, 1)
Split1First(s, sep) ==
    IF \A i \in 1..Len(s) : s[i] # sep THEN <<s>>
    ELSE LET k == CHOOSE i \in 1..Len(s) : s[i] = sep /\ \A j \in 1..(i - 1) : s[j] # sep
         IN  <<SubSeq(s, 1, k - 1), SubSeq(s, k + 1, Len(s))>>

\* str.rsplit(sep, 1) for a one-character sep
RSplit1(s, sep) ==
    IF \A i \in 1..Len(s) : s[i] # sep THEN <<s>>
    ELSE LET k == CHOOSE i \in 1..Len(s) : s[i] = sep /\ \A j \in (i + 1)..Len(s) : s[j] # sep
         IN  <<SubSeq(s, 1, k - 1), SubSeq(s, k + 1, Len(s))>>

\* str.lower() on ASCII
Lower(s) == [i \in 1..Len(s) |-> IF s[i] \in 65..90 THEN s[i] + 32 ELSE s[i]]

\* str.endswith(suffix)
EndsWith(s, suffix) ==
    /\ Len(suffix) <= Len(s)
    /\ SubSeq(s, Len(s) - Len(suffix) + 1, Len(s)) = suffix

\* all strings over an alphabet up to a length
RECURSIVE StringsUpTo(_, _)
StringsUpTo(alphabet, n) ==
    IF n = 0 THEN {<<>>}
    ELSE LET shorter == StringsUpTo(alphabet, n - 1)
         IN  shorter \cup {Append(s, c) : s \in {t \in shorter : Len(t) = n - 1}, c \in alphabet}

\* all lists over a set of elements up to a length
RECURSIVE ListsUpTo(_, _)
ListsUpTo(elems, n) ==
    IF n = 0 THEN {<<>>}
    ELSE LET shorter == ListsUpTo(elems, n - 1)
         IN  shorter \cup {Append(s, e) : s \in {t \in shorter : Len(t) = n - 1}, e \in elems}

None == [some |-> FALSE, val |-> <<>>]
Some(v) == [some |-> TRUE, val |-> v]
EmptyMap == [f \in {} |-> 0]

(***************************************************************************)
(* ExternalDataset: helpers of external.py                                 *)
(***************************************************************************)
\* the `extensions` argument; __init__ lower-cases and de-duplicates it
ExtensionsArg == {<<Ch.dot, Ch.p, Ch.n, Ch.g>>, <<Ch.dot, Ch.P, Ch.N, Ch.G>>}
extensions == {Lower(e) : e \in ExtensionsArg}

is_valid_file(filename) == \E e \in extensions : EndsWith(Lower(filename), e)

\* file_client.join_path(a, b)
join_path(a, b) == a \o <<Ch.slash>> \o b

\* find_folders without the sort (folders keep the listing order)
find_folders_unsorted(listing) ==
    [classes |-> listing,
     folder_to_idx |-> [f \in Range(listing) |->
        (CHOOSE i \in 1..Len(listing) :
            listing[i] = f /\ \A j \in (i + 1)..Len(listing) : listing[j] # f) - 1]]

\* find_folders numbering the folders from 1 (enumerate(folders, 1))
find_folders_one_based(listing) ==
    LET folders == Sorted(listing)
    IN  [classes |-> folders,
         folder_to_idx |-> [f \in Range(folders) |->
            CHOOSE i \in 1..Len(folders) :
                folders[i] = f /\ \A j \in (i + 1)..Len(folders) : folders[j] # f]]

\* find_folders(root, file_client), given the order the client lists the subfolders in
find_folders(listing) ==
    LET folders == Sorted(listing)
    IN  [classes |-> folders,
         folder_to_idx |-> [f \in Range(folders) |->
            (CHOOSE i \in 1..Len(folders) :
                folders[i] = f /\ \A j \in (i + 1)..Len(folders) : folders[j] # f) - 1]]

\* the inner loop of get_samples: the valid files of one folder, in sorted order
FolderSamples(folder_name, files, idx) ==
    LET ordered == Sorted(files)
        valid == SelectSeq(ordered, is_valid_file)
    IN  [i \in 1..Len(valid) |-> <<join_path(folder_name, valid[i]), idx>>]

\* the possible results of that loop over the orders the client may list the files in
FolderSampleOutcomes(snapshot, folder_name, idx) ==
    {FolderSamples(folder_name, q, idx) : q \in Listings(snapshot[folder_name])}

\* the outer loop of get_samples over the sorted folder names
RECURSIVE WalkFolders(_, _, _)
WalkFolders(snapshot, names, f2i) ==
    IF names = <<>> THEN {[samples |-> <<>>, available_classes |-> {}]}
    ELSE LET folder_name == names[Len(names)]
         IN  {[samples |-> r.samples \o s,
               available_classes |-> r.available_classes \cup
                                     (IF s # <<>> THEN {folder_name} ELSE {})] :
                 r \in WalkFolders(snapshot, SubSeq(names, 1, Len(names) - 1), f2i),
                 s \in FolderSampleOutcomes(snapshot, folder_name, f2i[folder_name])}

\* line 78 computed wrongly: only folders without any file count as empty
EmptyFoldersNoFiles(snapshot, f2i, available_classes) ==
    {f \in DOMAIN f2i : snapshot[f] = {}}

\* line 78: empty_folders = set(folder_to_idx.keys()) - available_classes
EmptyFolders(snapshot, f2i, available_classes) ==
    (DOMAIN f2i) \ available_classes

\* get_samples(root, folder_to_idx, is_valid_file, file_client): its possible results
get_samples(snapshot, f2i) ==
    LET keys == CHOOSE q \in Listings(DOMAIN f2i) : TRUE
    IN  {[samples |-> w.samples,
          empty_folders |-> EmptyFolders(snapshot, f2i, w.available_classes)] :
            w \in WalkFolders(snapshot, Sorted(keys), f2i)}

\* line 180 without the check
FoundNothingNever(found_samples) == FALSE

\* line 180: len(samples) == 0
FoundNothing(found_samples) == Len(found_samples) = 0

\* lines 185-189 without the assertion
CardinalityUnchecked(registry, classes) == TRUE

\* lines 185-189: assert len(self.CLASSES) == len(classes)
CardinalityOK(registry, classes) == Len(registry) = Len(classes)

\* np.array(text, dtype=np.int64) on a str: the decimal digits of int(text), which
\* allows surrounding whitespace; anything else is a ValueError
RECURSIVE DecimalValue(_)
DecimalValue(digits) ==
    IF digits = <<>> THEN 0
    ELSE 10 * DecimalValue(SubSeq(digits, 1, Len(digits) - 1)) + (digits[Len(digits)] - 48)

ParseInt(text) ==
    LET t == Strip(text)
    IN  IF t # <<>> /\ \A i \in 1..Len(t) : t[i] \in Digits
        THEN [ok |-> TRUE, val |-> DecimalValue(t)]
        ELSE [ok |-> FALSE, val |-> 0]

\* lines 245-251 for the (path, class_idx) tuples of _find_samples
DataInfosOfTuples(found_samples) ==
    [i \in 1..Len(found_samples) |->
        [filename |-> found_samples[i][1], gt_label |-> found_samples[i][2]]]

\* lines 245-251 for the fields of annotation lines: unpacking needs exactly two
\* fields and the label must convert to int64
FieldsOK(fields) ==
    \A i \in 1..Len(fields) : Len(fields[i]) = 2 /\ ParseInt(fields[i][2]).ok

DataInfosOfFields(fields) ==
    [i \in 1..Len(fields) |->
        [filename |-> fields[i][1], gt_label |-> ParseInt(fields[i][2]).val]]

\* line 241 with split(' ', 1) in place of rsplit(' ', 1)
AnnotationFieldsFirstSpace(lines) ==
    [i \in 1..Len(lines) |-> Split1First(Strip(lines[i]), Ch.sp)]

\* line 241: [x.strip().rsplit(' ', 1) for x in lines]
AnnotationFields(lines) ==
    [i \in 1..Len(lines) |-> RSplit1(Strip(lines[i]), Ch.sp)]

\* lines 217-230: the labels as read from the source, before sorting
NonEmpty(s) == Len(s) > 0

ReadLabels(e) ==
    IF e.exists
    THEN IF Len(e.lines) = 1
         THEN Split(Strip(e.lines[1]), Ch.comma)
         ELSE SelectSeq([i \in 1..Len(e.lines) |-> Strip(e.lines[i])], NonEmpty)
    ELSE Split(e.value, Ch.comma)

\* line 231 left out
ResultUnsorted(labels) == labels

\* line 231 followed by a removal of repeated labels
RECURSIVE Dedup(_)
Dedup(labels) ==
    IF labels = <<>> THEN <<>>
    ELSE LET front == Dedup(SubSeq(labels, 1, Len(labels) - 1))
         IN  IF labels[Len(labels)] \in Range(front) THEN front
             ELSE Append(front, labels[Len(labels)])

ResultSortDedup(labels) == Dedup(Sorted(labels))

\* line 231: result.sort()
ResultSort(labels) == Sorted(labels)

load_class_labels(e) == ResultSort(ReadLabels(e))

(***************************************************************************)
(* ExternalDataset: inputs                                                 *)
(***************************************************************************)
EnvUndefined == [defined |-> FALSE, value |-> <<>>, exists |-> FALSE, lines |-> <<>>]
EnvInline(text) == [defined |-> TRUE, value |-> text, exists |-> FALSE, lines |-> <<>>]
\* MMCLS_CLASSES names an existing file; `lines` is what readlines() gives
EnvFile(lines) ==
    [defined |-> TRUE, value |-> <<Ch.slash, Ch.c>>, exists |-> TRUE, lines |-> lines]

InlineAlphabet == {Ch.comma, Ch.a, Ch.b, Ch.c}
LabelFileLines ==
    {<<>>, <<Ch.sp>>, <<Ch.a>>, <<Ch.b>>, <<Ch.sp, Ch.b, Ch.sp>>, <<Ch.b, Ch.comma, Ch.a>>}

RichEnvs ==
    {EnvUndefined}
    \cup {EnvInline(text) : text \in StringsUpTo(InlineAlphabet, MaxEnvLen)}
    \cup {EnvFile(lines) : lines \in ListsUpTo(LabelFileLines, MaxLines)}

SmallEnvs ==
    {EnvUndefined,
     EnvInline(<<Ch.a>>),
     EnvInline(<<Ch.b, Ch.comma, Ch.a>>),
     EnvInline(<<Ch.a, Ch.comma, Ch.a>>),
     EnvInline(<<Ch.b, Ch.comma, Ch.a, Ch.comma, Ch.c>>),
     EnvFile(<<<<Ch.b>>, <<>>, <<Ch.a>>>>)}

FolderNames == {<<Ch.B>>, <<Ch.a>>, <<Ch.a, Ch.b>>, <<Ch.b>>}
FileNames ==
    {<<Ch.x, Ch.dot, Ch.P, Ch.N, Ch.G>>,
     <<Ch.a, Ch.dot, Ch.p, Ch.n, Ch.g>>,
     <<Ch.n, Ch.dot, Ch.t, Ch.x, Ch.t>>}

Snapshots ==
    UNION {[folders -> SUBSET FileNames] :
              folders \in {F \in SUBSET FolderNames : Cardinality(F) <= MaxFolders}}

SmallSnapshots ==
    {[f \in {<<Ch.a>>, <<Ch.b>>} |-> IF f = <<Ch.a>> THEN FileNames ELSE {}],
     [f \in {<<Ch.a>>} |-> {<<Ch.n, Ch.dot, Ch.t, Ch.x, Ch.t>>}]}

AnnNone == [kind |-> "none", lines |-> <<>>]
AnnStr(lines) == [kind |-> "str", lines |-> lines]
AnnOther == [kind |-> "other", lines |-> <<>>]

AnnAlphabet == {Ch.tab, Ch.sp, Ch.a, Ch.d1}
AnnLines ==
    {<<Ch.a, Ch.sp, Ch.d1>>, <<Ch.b, Ch.sp, Ch.d0>>, <<Ch.a, Ch.tab, Ch.d1>>, <<Ch.a>>}

RichAnns ==
    {AnnStr(<<line>>) : line \in StringsUpTo(AnnAlphabet, MaxLineLen)}
    \cup {AnnStr(lines) : lines \in ListsUpTo(AnnLines, MaxAnnLines)}

SmallAnns ==
    {AnnNone, AnnStr(<<<<Ch.a, Ch.sp, Ch.d0>>>>), AnnStr(<<<<Ch.a, Ch.sp, Ch.d1>>>>),
     AnnStr(<<<<Ch.a>>>>), AnnOther}

(***************************************************************************)
(* inference_model: helpers of predict_common.py                           *)
(***************************************************************************)
\* collate([data], samples_per_gpu=1): the scores hold one row
BatchSize == 1

\* top_k=None
NoTopK == -1

LoadFromFile == "LoadImageFromFile"
\* dict(type='LoadImageFromFile'), the stage line 27 inserts
PlainLoadStage == [type |-> LoadFromFile, args |-> "none"]
\* stages a test pipeline may be configured with
ConfiguredStages ==
    {PlainLoadStage,
     [type |-> LoadFromFile, args |-> "file_client_args"],
     [type |-> "Resize", args |-> "size"],
     [type |-> "Collect", args |-> "keys"]}

\* lines 25-32 inserting the load stage without looking at the first stage
PipelineForAlwaysInsert(pl, img) ==
    IF img = "str"
    THEN <<PlainLoadStage>> \o pl
    ELSE IF pl[1].type = LoadFromFile THEN Tail(pl) ELSE pl

\* lines 25-32: the pipeline after the branch on isinstance(img, str), pl not empty
PipelineFor(pl, img) ==
    IF img = "str"
    THEN IF pl[1].type # LoadFromFile THEN <<PlainLoadStage>> \o pl ELSE pl
    ELSE IF pl[1].type = LoadFromFile THEN Tail(pl) ELSE pl

\* the orders of the indices S (0-based) that put row ascending
RECURSIVE AscendingOrders(_, _)
AscendingOrders(row, S) ==
    IF S = {} THEN {<<>>}
    ELSE UNION {{<<i>> \o rest : rest \in AscendingOrders(row, S \ {i})} :
                   i \in {j \in S : \A k \in S : row[j + 1].v <= row[k + 1].v}}

\* np.argsort(scores, axis=1) on one row: the index orders that sort the row
\* ascending; the order of equal scores is not fixed by the default sort kind
ArgsortRow(row) == AscendingOrders(row, 0..(Len(row) - 1))

\* np.argsort(scores, axis=1): one order per row
RECURSIVE Argsort(_)
Argsort(m) ==
    IF m = <<>> THEN {<<>>}
    ELSE {Append(front, o) : front \in Argsort(SubSeq(m, 1, Len(m) - 1)),
                             o \in ArgsortRow(m[Len(m)])}

\* np.flip(m, axis=0): the rows reversed, each row as it was
FlipRowsOnly(m) == [r \in 1..Len(m) |-> m[Len(m) + 1 - r]]

\* np.flip(m): every axis reversed
Flip(m) ==
    [r \in 1..Len(m) |->
        [c \in 1..Len(m[Len(m) + 1 - r]) |->
            m[Len(m) + 1 - r][Len(m[Len(m) + 1 - r]) + 1 - c]]]

\* float(x) of a float32 score: the same value as a Python float
Float(x) == x.v

\* result[key] = value on a dict kept in insertion order
DictSet(d, key, value) ==
    IF \E i \in 1..Len(d) : d[i][1] = key
    THEN [i \in 1..Len(d) |-> IF d[i][1] = key THEN <<key, value>> ELSE d[i]]
    ELSE Append(d, <<key, value>>)

\* lines 46-48: the dict after the first k rounds of the top-k loop
RECURSIVE TopKDict(_, _, _, _)
TopKDict(order, k, classes, scores) ==
    IF k = 0 THEN <<>>
    ELSE LET i == order[1][k]
         IN  DictSet(TopKDict(order, k - 1, classes, scores),
                     classes[i + 1], Float(scores[1][i + 1]))

\* lines 50-51: the dict after the first k rounds of the all-classes loop
RECURSIVE AllDict(_, _, _)
AllDict(k, classes, scores) ==
    IF k = 0 THEN <<>>
    ELSE DictSet(AllDict(k - 1, classes, scores), classes[k], Float(scores[1][k]))

\* lines 41-52: the dicts inference_model may return; the empty set when sorted[0][k]
\* is out of range (IndexError)
Results(top_k, classes, scores) ==
    IF top_k = NoTopK THEN {AllDict(Len(scores[1]), classes, scores)}
    ELSE IF top_k > Len(scores[1]) THEN {}
    ELSE {TopKDict(Flip(order), top_k, classes, scores) : order \in Argsort(scores)}

(***************************************************************************)
(* ExternalDataset: operations                                             *)
(***************************************************************************)
InitInference ==
    /\ pipeline0 = <<>>
    /\ pipeline = <<>>
    /\ model_classes = <<>>
    /\ model_scores = <<>>
    /\ last = [img |-> "none", top_k |-> NoTopK]
    /\ result = <<>>
    /\ infer_raised = "none"

InitDataset(inputs) ==
    /\ \E inp \in inputs :
          /\ env = inp[1]
          /\ fs = inp[2]
          /\ ann_file = inp[3]
    /\ pc = "new"
    /\ CLASSES = None
    /\ listed = <<>>
    /\ found = [classes |-> <<>>, folder_to_idx |-> EmptyMap]
    /\ samples = <<>>
    /\ empty_classes = {}
    /\ warned = {}
    /\ folder_to_idx = EmptyMap
    /\ data_infos = <<>>
    /\ returned = FALSE
    /\ raised = "none"
    /\ InitInference

\* __init__ up to the classes argument: load_class_labels() raises
LoadClassLabelsUndefined ==
    /\ pc = "new"
    /\ ~env.defined
    /\ pc' = "failed"
    /\ raised' = "Exception"
    /\ UNCHANGED <<env, fs, ann_file, CLASSES, listed, found, samples, empty_classes,
                   warned, folder_to_idx, data_infos, returned>>
    /\ UNCHANGED inferVars

\* __init__ up to the classes argument: load_class_labels() returns the registry
LoadClassLabels ==
    /\ pc = "new"
    /\ env.defined
    /\ CLASSES' = Some(load_class_labels(env))
    /\ pc' = "labelled"
    /\ raised' = "none"
    /\ UNCHANGED <<env, fs, ann_file, listed, found, samples, empty_classes,
                   warned, folder_to_idx, data_infos, returned>>
    /\ UNCHANGED inferVars

\* load_annotations raising `exc`: nothing is returned, the object keeps its fields
Raise(exc) ==
    /\ raised' = exc
    /\ pc' = "failed"
    /\ returned' = FALSE
    /\ data_infos' = <<>>
    /\ samples' = <<>>
    /\ warned' = {}
    /\ UNCHANGED <<CLASSES, folder_to_idx>>

\* load_annotations with ann_file None: _find_samples, then the catalog
LoadAnnotationsDir ==
    /\ pc \in {"labelled", "loaded"}
    /\ ann_file.kind = "none"
    /\ \E q \in Listings(DOMAIN fs) :
          LET ff == find_folders(q)
          IN  \E gs \in get_samples(fs, ff.folder_to_idx) :
                /\ listed' = q
                /\ found' = ff
                /\ empty_classes' = gs.empty_folders
                /\ IF FoundNothing(gs.samples)
                   THEN Raise("RuntimeError")
                   ELSE IF CLASSES.some /\ ~CardinalityOK(CLASSES.val, ff.classes)
                   THEN Raise("AssertionError")
                   ELSE /\ CLASSES' = IF CLASSES.some THEN CLASSES ELSE Some(ff.classes)
                        /\ warned' = gs.empty_folders
                        /\ folder_to_idx' = ff.folder_to_idx
                        /\ samples' = gs.samples
                        /\ data_infos' = DataInfosOfTuples(gs.samples)
                        /\ returned' = TRUE
                        /\ raised' = "none"
                        /\ pc' = "loaded"
    /\ UNCHANGED <<env, fs, ann_file>>
    /\ UNCHANGED inferVars

\* load_annotations with ann_file a str: the lines of the annotation file
LoadAnnotationsFile ==
    /\ pc \in {"labelled", "loaded"}
    /\ ann_file.kind = "str"
    /\ LET fields == AnnotationFields(ann_file.lines)
       IN  IF FieldsOK(fields)
           THEN /\ samples' = fields
                /\ data_infos' = DataInfosOfFields(fields)
                /\ returned' = TRUE
                /\ raised' = "none"
                /\ pc' = "loaded"
                /\ UNCHANGED <<CLASSES, folder_to_idx, warned>>
           ELSE /\ raised' = "ValueError"
                /\ pc' = "failed"
                /\ returned' = FALSE
                /\ data_infos' = <<>>
                /\ samples' = fields
                /\ UNCHANGED <<CLASSES, folder_to_idx, warned>>
    /\ UNCHANGED <<env, fs, ann_file, listed, found, empty_classes>>
    /\ UNCHANGED inferVars

\* load_annotations with ann_file neither None nor str
LoadAnnotationsOther ==
    /\ pc \in {"labelled", "loaded"}
    /\ ann_file.kind = "other"
    /\ Raise("TypeError")
    /\ UNCHANGED <<env, fs, ann_file, listed, found, empty_classes>>
    /\ UNCHANGED inferVars

NextDataset ==
    \/ LoadClassLabelsUndefined
    \/ LoadClassLabels
    \/ LoadAnnotationsDir
    \/ LoadAnnotationsFile
    \/ LoadAnnotationsOther

\* class-label resolution over all sources
InitLabels ==
    InitDataset((RichEnvs \X SmallSnapshots \X {AnnNone})
                \cup (SmallEnvs \X SmallSnapshots \X SmallAnns))
SpecLabels == InitLabels /\ [][NextDataset]_vars

\* directory discovery over all snapshots
InitDir ==
    InitDataset((SmallEnvs \X Snapshots \X {AnnNone})
                \cup (SmallEnvs \X SmallSnapshots \X SmallAnns))
SpecDir == InitDir /\ [][NextDataset]_vars

\* annotation-file mode over all annotation lines
InitAnn ==
    InitDataset((SmallEnvs \X SmallSnapshots \X RichAnns)
                \cup (SmallEnvs \X SmallSnapshots \X SmallAnns))
SpecAnn == InitAnn /\ [][NextDataset]_vars

\* the whole dataset: all three input families
InitAll == InitLabels \/ InitDir \/ InitAnn
Spec == InitAll /\ [][NextDataset]_vars

(***************************************************************************)
(* Vocabulary of the dataset claims, stated on the inputs.                 *)
(***************************************************************************)
DirMode == ann_file.kind = "none"
FileMode == ann_file.kind = "str"
AnnotationsCalled ==
    \/ pc = "loaded"
    \/ pc = "failed" /\ raised \in {"RuntimeError", "AssertionError", "ValueError", "TypeError"}

ValidFiles(f) == {file \in fs[f] : is_valid_file(file)}
AnyValidFile == \E f \in DOMAIN fs : ValidFiles(f) # {}
\* position of a folder among the lexicographically ordered subfolders
RankOf(f) == Cardinality({g \in DOMAIN fs : LexLess(g, f)})
AllValidSamples ==
    UNION {{[filename |-> join_path(f, file), gt_label |-> RankOf(f)] :
               file \in ValidFiles(f)} : f \in DOMAIN fs}
CountMatches == Cardinality(DOMAIN fs) = Len(CLASSES.val)
InRange(infos) ==
    \A i \in 1..Len(infos) :
        infos[i].gt_label >= 0 /\ infos[i].gt_label < Len(CLASSES.val)

\* C1 (as stated): in both modes every gt_label of a returned catalog indexes CLASSES.
C1_Original == returned => InRange(data_infos)

\* C1 (amended): in directory-discovery mode every gt_label of the returned catalog
\* is an integer i with 0 <= i < len(CLASSES); annotation-file labels are unchecked.
C1_DirLabelsInRange == (returned /\ DirMode) => InRange(data_infos)

C1_Witness ==
    /\ returned /\ DirMode
    /\ Len(CLASSES.val) >= 2
    /\ \E i \in 1..Len(data_infos) : data_infos[i].gt_label = Len(CLASSES.val) - 1

\* C2 (as stated): a folder count different from the class count always ends in the
\* cardinality assertion, and nothing is returned.
C2_Original ==
    (AnnotationsCalled /\ DirMode /\ ~CountMatches)
        => (raised = "AssertionError" /\ ~returned /\ data_infos = <<>>)

\* C2 (amended): a folder count different from the class count makes _find_samples
\* fail and load_annotations return nothing; the failure is the cardinality assertion
\* when some valid file exists and the discovery RuntimeError, raised first, when none.
C2_MismatchRaises ==
    (AnnotationsCalled /\ DirMode /\ ~CountMatches)
        => /\ ~returned
           /\ data_infos = <<>>
           /\ raised = IF AnyValidFile THEN "AssertionError" ELSE "RuntimeError"

C2_Witness ==
    /\ AnnotationsCalled /\ DirMode /\ ~CountMatches
    /\ AnyValidFile
    /\ raised = "AssertionError"

\* C3: with no valid file under any subfolder (or no subfolder) _find_samples raises
\* RuntimeError and nothing is returned; any failure returns nothing, and a success
\* returns the whole catalog.
C3_NothingFoundRaises ==
    /\ (AnnotationsCalled /\ DirMode /\ ~AnyValidFile)
          => (raised = "RuntimeError" /\ ~returned /\ data_infos = <<>>)
    /\ pc = "failed" => (~returned /\ data_infos = <<>> /\ raised # "none")
    /\ (pc = "loaded" /\ DirMode)
          => (returned /\ raised = "none" /\ Range(data_infos) = AllValidSamples)

C3_Witness ==
    /\ AnnotationsCalled /\ DirMode
    /\ \E f \in DOMAIN fs : fs[f] # {}
    /\ ~AnyValidFile
    /\ raised = "RuntimeError"

FolderIndexOK(m, classes) ==
    /\ DOMAIN m = DOMAIN fs
    /\ {m[f] : f \in DOMAIN m} = 0..(Cardinality(DOMAIN fs) - 1)
    /\ \A f, g \in DOMAIN m : LexLess(f, g) => m[f] < m[g]
    /\ Len(classes) = Cardinality(DOMAIN fs)
    /\ \A f \in DOMAIN m : classes[m[f] + 1] = f

\* C4: whatever order the client lists the subfolders in, find_folders maps each
\* folder to its position in the sorted folder list (a bijection onto 0..|F|-1,
\* increasing with the names), and a repeated discovery gives the same assignment.
C4_FolderIndexSorted ==
    [][(DirMode' /\ AnnotationsCalled')
          => /\ FolderIndexOK(found'.folder_to_idx, found'.classes)
             /\ (pc = "loaded" => found' = found)]_vars

C4_Witness ==
    /\ DirMode /\ pc = "loaded"
    /\ Len(listed) >= 2
    /\ listed # found.classes
    /\ \E i, j \in 1..Len(listed) : i < j /\ LexLess(listed[j], listed[i])

\* C5: empty_folders is exactly the set of folders without a valid sample; they give
\* no sample and keep their class ids, and with a matching class count and a valid
\* sample elsewhere the full catalog is returned with only a warning.
C5_EmptyFolders ==
    (AnnotationsCalled /\ DirMode)
        => /\ empty_classes = {f \in DOMAIN fs : ValidFiles(f) = {}}
           /\ \A f \in empty_classes : f \in DOMAIN found.folder_to_idx
           /\ \A f \in DOMAIN found.folder_to_idx : found.folder_to_idx[f] = RankOf(f)
           /\ (AnyValidFile /\ CountMatches)
                 => /\ returned
                    /\ raised = "none"
                    /\ warned = {f \in DOMAIN fs : ValidFiles(f) = {}}
                    /\ folder_to_idx = found.folder_to_idx
                    /\ Range(data_infos) = AllValidSamples
                    /\ Len(data_infos) = Cardinality(AllValidSamples)
                    /\ \A i \in 1..Len(data_infos) : \A f \in empty_classes :
                          data_infos[i].gt_label # RankOf(f)

C5_Witness ==
    /\ AnnotationsCalled /\ DirMode /\ returned
    /\ \E f \in warned : fs[f] # {}
    /\ Len(data_infos) >= 2

(***************************************************************************)
(* Vocabulary of the annotation-line and label-source claims.              *)
(***************************************************************************)
HasWhitespace(s) == \E k \in 1..Len(s) : s[k] \in Whitespace
HasSpace(s) == \E k \in 1..Len(s) : s[k] = Ch.sp

\* <<path, label>> of a trimmed line split on its last whitespace RUN
SplitOnLastRun(s) ==
    CHOOSE pl \in {<<SubSeq(s, 1, j), SubSeq(s, k, Len(s))>> :
                      j \in 0..Len(s), k \in 1..(Len(s) + 1)} :
        \E j \in 0..Len(s), k \in 1..(Len(s) + 1) :
            /\ pl = <<SubSeq(s, 1, j), SubSeq(s, k, Len(s))>>
            /\ j + 1 < k
            /\ \A m \in (j + 1)..(k - 1) : s[m] \in Whitespace
            /\ j >= 1 /\ s[j] \notin Whitespace
            /\ \A m \in k..Len(s) : s[m] \notin Whitespace

\* <<path, label>> of a trimmed line split on its last space CHARACTER
SplitOnLastSpace(s) ==
    CHOOSE pl \in {<<SubSeq(s, 1, k - 1), SubSeq(s, k + 1, Len(s))>> : k \in 1..Len(s)} :
        \E k \in 1..Len(s) :
            /\ pl = <<SubSeq(s, 1, k - 1), SubSeq(s, k + 1, Len(s))>>
            /\ s[k] = Ch.sp
            /\ \A m \in (k + 1)..Len(s) : s[m] # Ch.sp

\* the last whitespace run of a trimmed line is one space character
LastRunIsOneSpace(s) ==
    \E k \in 2..(Len(s) - 1) :
        /\ s[k] = Ch.sp
        /\ s[k - 1] \notin Whitespace
        /\ \A m \in (k + 1)..Len(s) : s[m] \notin Whitespace

\* C6 (as stated): every trimmed line with a whitespace separator is split into
\* (path, label) on its last whitespace run.
C6_Original ==
    (AnnotationsCalled /\ FileMode)
        => \A i \in 1..Len(ann_file.lines) :
              HasWhitespace(Strip(ann_file.lines[i]))
                 => samples[i] = SplitOnLastRun(Strip(ann_file.lines[i]))

\* C6 (amended): every trimmed line that contains a space is split at its last space
\* character (U+0020): the label is all that follows it, the path all that precedes
\* it, so paths may contain whitespace; this is the split on the last whitespace run
\* exactly when that run is one space. A line without a space stays one field.
C6_SplitOnLastSpace ==
    (AnnotationsCalled /\ FileMode)
        => /\ Len(samples) = Len(ann_file.lines)
           /\ \A i \in 1..Len(ann_file.lines) :
                 LET s == Strip(ann_file.lines[i])
                 IN  /\ HasSpace(s) => samples[i] = SplitOnLastSpace(s)
                     /\ ~HasSpace(s) => samples[i] = <<s>>
                     /\ LastRunIsOneSpace(s) => samples[i] = SplitOnLastRun(s)
                     /\ ~HasSpace(s) => (raised = "ValueError" /\ ~returned)

C6_Witness ==
    /\ AnnotationsCalled /\ FileMode /\ returned
    /\ \E i \in 1..Len(samples) :
          /\ HasSpace(samples[i][1])
          /\ samples[i][2] = <<Ch.d1>>
          /\ data_infos[i].filename = <<Ch.a, Ch.sp, Ch.a>>

\* the comma-delimited fields of a text, by start position
CommaTokens(text) ==
    [i \in {k \in 1..(Len(text) + 1) : k = 1 \/ text[k - 1] = Ch.comma} |->
        SubSeq(text, i,
               CHOOSE j \in (i - 1)..Len(text) :
                   /\ j = Len(text) \/ text[j + 1] = Ch.comma
                   /\ \A k \in i..j : text[k] # Ch.comma)]

Blank(line) == \A k \in 1..Len(line) : line[k] \in Whitespace

\* the labels a source lists, by position in the source
SourceTokens(e) ==
    IF e.exists
    THEN IF Len(e.lines) = 1
         THEN CommaTokens(Strip(e.lines[1]))
         ELSE [i \in {k \in 1..Len(e.lines) : ~Blank(e.lines[k])} |-> Strip(e.lines[i])]
    ELSE CommaTokens(e.value)

Occurrences(seq, l) == Cardinality({i \in 1..Len(seq) : seq[i] = l})

SameLabels(seq, tokens) ==
    /\ Len(seq) = Cardinality(DOMAIN tokens)
    /\ \A l \in Range(seq) :
          Occurrences(seq, l) = Cardinality({i \in DOMAIN tokens : tokens[i] = l})

IsSorted(seq) == \A i, j \in 1..Len(seq) : i < j => LexLeq(seq[i], seq[j])
Repeats(seq) == \E i, j \in 1..Len(seq) : i # j /\ seq[i] = seq[j]

\* C8: for an inline string, a one-line comma-separated file and a one-label-per-line
\* file, load_class_labels returns the source's labels sorted lexicographically, the
\* blank lines skipped; with no source configured it raises and returns nothing.
C8_LabelsSorted ==
    pc # "new"
        => IF env.defined
           THEN /\ CLASSES.some
                /\ IsSorted(CLASSES.val)
                /\ SameLabels(CLASSES.val, SourceTokens(env))
                /\ (env.exists /\ Len(env.lines) # 1) => <<>> \notin Range(CLASSES.val)
           ELSE /\ pc = "failed"
                /\ raised = "Exception"
                /\ ~CLASSES.some

C8_Witness ==
    /\ pc = "labelled"
    /\ env = EnvInline(<<Ch.b, Ch.comma, Ch.a, Ch.comma, Ch.c>>)
    /\ CLASSES.val = <<<<Ch.a>>, <<Ch.b>>, <<Ch.c>>>>

\* C9 (as stated): the resolved registry never holds a label twice.
C9_Original == CLASSES.some => ~Repeats(CLASSES.val)

\* C9 (amended): the resolved registry is sorted but not deduplicated: it holds every
\* label as often as the source lists it, so it is free of repeats exactly when the
\* source is.
C9_RepeatsKept ==
    CLASSES.some
        => LET tokens == SourceTokens(env)
           IN  /\ Len(CLASSES.val) = Cardinality(DOMAIN tokens)
               /\ Repeats(CLASSES.val)
                     <=> \E i, j \in DOMAIN tokens : i # j /\ tokens[i] = tokens[j]

C9_Witness ==
    /\ CLASSES.some
    /\ env.exists
    /\ Len(env.lines) > 1
    /\ Repeats(CLASSES.val)
    /\ \E i \in 1..Len(env.lines) : Blank(env.lines[i])

(***************************************************************************)
(* inference_model: inputs and operation                                   *)
(***************************************************************************)
ScoreLevels == {0, 1, 2}
ScoreRows(n) == [1..n -> {[dtype |-> "float32", v |-> x] : x \in ScoreLevels}]
DistinctLabels == <<<<Ch.a>>, <<Ch.b>>, <<Ch.c>>, <<Ch.x>>, <<Ch.n>>>>
\* model.CLASSES: lists of distinct labels, and lists in which class j repeats the
\* label of class 0
ClassLists ==
    {SubSeq(DistinctLabels, 1, n) : n \in 1..Min2(MaxClasses, Len(DistinctLabels))}
    \cup UNION {{[i \in 1..n |-> IF i = j THEN DistinctLabels[1] ELSE DistinctLabels[i]] :
                    j \in 2..n} : n \in 2..Min2(MaxClasses, Len(DistinctLabels))}
Pipelines == ListsUpTo(ConfiguredStages, MaxStages)

InitDatasetIdle ==
    /\ env = EnvUndefined
    /\ fs = EmptyMap
    /\ ann_file = AnnNone
    /\ pc = "idle"
    /\ CLASSES = None
    /\ listed = <<>>
    /\ found = [classes |-> <<>>, folder_to_idx |-> EmptyMap]
    /\ samples = <<>>
    /\ empty_classes = {}
    /\ warned = {}
    /\ folder_to_idx = EmptyMap
    /\ data_infos = <<>>
    /\ returned = FALSE
    /\ raised = "none"

\* a loaded model: its config, its class list and the scores its forward pass gives
\* for the image (a result depends on the scores of its own call only)
InitModel(pipelines, classLists) ==
    /\ pipeline0 \in pipelines
    /\ pipeline = pipeline0
    /\ model_classes \in classLists
    /\ model_scores \in [1..BatchSize -> ScoreRows(Len(model_classes))]
    /\ last = [img |-> "none", top_k |-> NoTopK]
    /\ result = <<>>
    /\ infer_raised = "none"
    /\ InitDatasetIdle

\* inference_model(model, img, top_k)
Infer(img, top_k) ==
    /\ last' = [img |-> img, top_k |-> top_k]
    /\ IF pipeline = <<>>
       THEN /\ infer_raised' = "IndexError"
            /\ result' = <<>>
            /\ UNCHANGED pipeline
       ELSE /\ pipeline' = PipelineFor(pipeline, img)
            /\ LET results == Results(top_k, model_classes, model_scores)
               IN  IF results = {}
                   THEN /\ infer_raised' = "IndexError"
                        /\ result' = <<>>
                   ELSE /\ infer_raised' = "none"
                        /\ result' \in results
    /\ UNCHANGED <<pipeline0, model_classes, model_scores>>
    /\ UNCHANGED dsVars

TopKArgs == {NoTopK} \cup 0..(Len(model_classes) + 1)

InferenceModelFilename == \E top_k \in TopKArgs : Infer("str", top_k)
InferenceModelArray == \E top_k \in TopKArgs : Infer("ndarray", top_k)

NextInference ==
    \/ InferenceModelFilename
    \/ InferenceModelArray

\* top-k formatting over all class lists and score rows
InitTopK ==
    InitModel({<<[type |-> "Resize", args |-> "size"]>>}, ClassLists)
SpecTopK == InitTopK /\ [][NextInference]_vars

\* pipeline mutation over all configured pipelines
InitPipeline ==
    InitModel(Pipelines, {<<<<Ch.a>>>>})
SpecPipeline == InitPipeline /\ [][NextInference]_vars

(***************************************************************************)
(* Claims on inference_model.                                              *)
(***************************************************************************)
NumClasses == Len(model_classes)
ScoreOf(i) == model_scores[1][i].v
Keys(d) == {d[i][1] : i \in 1..Len(d)}

TopKCall ==
    /\ last.img # "none"
    /\ last.top_k >= 1
    /\ last.top_k <= NumClasses

TopKResult ==
    /\ infer_raised = "none"
    /\ Len(result) = last.top_k
    /\ \A a \in 1..Len(result) :
          \E i \in 1..NumClasses : result[a] = <<model_classes[i], ScoreOf(i)>>
    /\ \A a, b \in 1..Len(result) : a < b => result[a][2] >= result[b][2]
    /\ \A i \in 1..NumClasses :
          model_classes[i] \notin Keys(result)
             => \A a \in 1..Len(result) : ScoreOf(i) <= result[a][2]

\* C7 (as stated): for every class list and 1 <= top_k <= n the result has exactly
\* top_k entries, those of the top_k highest scores, in descending-score order.
C7_Original == TopKCall => TopKResult

\* C7 (amended): the same, provided the class labels are pairwise distinct; entries
\* of classes that share a label collapse into one dict key.
C7_TopKDescending == (TopKCall /\ ~Repeats(model_classes)) => TopKResult

C7_Witness ==
    /\ model_classes = <<<<Ch.a>>, <<Ch.b>>, <<Ch.c>>>>
    /\ ScoreOf(1) = 0 /\ ScoreOf(2) = 2 /\ ScoreOf(3) = 1
    /\ last.top_k = 2
    /\ result = <<<<<<Ch.b>>, 2>>, <<<<Ch.c>>, 1>>>>

IsLoad(stage) == stage.type = LoadFromFile
IsOther(stage) == stage.type # LoadFromFile
LoadCount(pl) == Cardinality({i \in 1..Len(pl) : IsLoad(pl[i])})

PipelineKept ==
    /\ last.img # "none"
          => ((pipeline # <<>> /\ IsLoad(pipeline[1])) <=> last.img = "str")
    /\ LoadCount(pipeline) <= 1
    /\ SelectSeq(pipeline, IsOther) = SelectSeq(pipeline0, IsOther)

AtMostOneLoadInFront(pl) ==
    /\ pl # <<>>
    /\ \A i \in 1..Len(pl) : IsLoad(pl[i]) => i = 1

\* C10 (as stated): from a non-empty pipeline with at most one LoadImageFromFile, at
\* position 0, after any calls the first stage is LoadImageFromFile iff the last call
\* got a filename, there is at most one such stage, and the other stages are kept.
C10_Original == AtMostOneLoadInFront(pipeline0) => PipelineKept

\* C10 (amended): the same, from a pipeline that also holds at least one stage other
\* than LoadImageFromFile.
C10_PipelineKept ==
    (AtMostOneLoadInFront(pipeline0) /\ \E i \in 1..Len(pipeline0) : IsOther(pipeline0[i]))
        => PipelineKept

C10_Witness ==
    /\ Len(pipeline0) >= 2
    /\ AtMostOneLoadInFront(pipeline0)
    /\ pipeline0[1] = [type |-> LoadFromFile, args |-> "file_client_args"]
    /\ last.img = "str"
    /\ pipeline[1] = PlainLoadStage

====
